---- MODULE Spec2Model ----
(***************************************************************************)
(* Model of kedro_viz/integrations/kedro/sqlite_store.py: the SQLiteStore  *)
(* session store and its collaborative synchronisation with a remote       *)
(* object store (download -> merge -> upload).                             *)
(*                                                                         *)
(* A database file is modelled by its content: absent, not a database      *)
(* ("corrupt"), or the rows of its `runs` table in insertion order.        *)
(* The working directory and the remote location are maps from file base   *)
(* names to contents.  Every statement of save() and sync() that touches a  *)
(* file, the remote store or the local table is one step of the model.     *)
(*                                                                         *)
(* Spec is one process and its store.  NamingSpec is the same process over *)
(* every state of the identity override.  PeersSpec is two processes, each *)
(* with its own store, whose steps interleave on one remote location.      *)
(***************************************************************************)
EXTENDS Naturals, Sequences, FiniteSets, TLC

\* ------------------------------------------------------------------ bounds
MaxOps == 2       \* operations (save and sync calls) started in one behaviour

\* run identifiers and blobs: two of each give equal and different ids, and
\* equal and different blobs under one id
Ids == {1, 2}
Blobs == {1, 2}

\* ------------------------------------------------------- names and contents
\* base name of the local database file (SQLiteStore.location)
LocalDbName == "session_store.db"

\* base names a file of the working directory or a remote object can have
ObjectNames == {"ann.db", "session_store.db", "zoe.db"}

\* order in which the remote listing returns the names it matches (the
\* transport lists a prefix in sorted order); the own object and the object
\* named like the local database each have a peer listed after them
ListOrder == <<"ann.db", "session_store.db", "zoe.db">>

\* RunModel(id, blob)
RunModel(i, b) == [id |-> i, blob |-> b]

Absent == [kind |-> "absent", rows |-> <<>>]
Corrupt == [kind |-> "corrupt", rows |-> <<>>]
Db(rows) == [kind |-> "db", rows |-> rows]

IdsOf(rows) == {rows[k].id : k \in 1..Len(rows)}
RowsOf(rows) == {rows[k] : k \in 1..Len(rows)}

\* the tables the environment can hold before the first operation: any rows
\* with distinct ids (id is the primary key of `runs`), listed by ascending id
RECURSIVE RowSeqs(_)
RowSeqs(n) ==
    IF n = 0 THEN {<<>>}
    ELSE RowSeqs(n - 1) \cup
         {Append(s, RunModel(i, b)) : s \in RowSeqs(n - 1), i \in Ids, b \in Blobs}

Ascending(rows) == \A k \in 1..(Len(rows) - 1) : rows[k].id < rows[k + 1].id

InitialDbs == {Db(s) : s \in {t \in RowSeqs(Cardinality(Ids)) : Ascending(t)}}

\* ------------------------------------------------------------------- state
VARIABLES
    env_username,        \* os.environ.get("KEDRO_SQLITE_STORE_USERNAME"): <<>> for
                         \* None (unset), <<v>> for the value v it is set to
    os_username,         \* getpass.getuser()
    remote_path,         \* self._remote_path, "" when None
    remote,              \* the objects <remote_location>/<name>
    files,               \* the files <self._path>/<name>
    op,                  \* the running (or last) operation: "sync" or "save"
    pc,                  \* position inside the running operation
    databases,           \* _download: the listing
    db_i,                \* _download: index of the object being fetched
    databases_location,  \* _download's result, _merge's argument
    loc_i,               \* _merge: index of the file being merged
    all_runs_data,       \* _merge: rows of the current file still to insert
    detached,            \* _merge removed the file its own session writes to
    result,              \* how the last operation ended
    ops,                 \* operations started so far
    calls,               \* per operation: calls of _download, _merge, _upload, remote fs
    logged,              \* per operation: logging.exception calls
    created,             \* per operation: files _download wrote in the directory
    faults,              \* per operation: failures that occurred
    start,               \* files and remote when the operation began, and the
                         \* record save() was called to write (none for sync())
    prev,                \* how the previous operation ended
    parked               \* the other processes sharing the remote location: for
                         \* each, the state of its store while it is not running

vars == <<env_username, os_username, remote_path, remote, files, op, pc, databases,
          db_i, databases_location, loc_i, all_runs_data, detached, result, ops,
          calls, logged, created, faults, start, prev, parked>>

\* ------------------------------------------------------- pure definitions
\* _get_dbname(): username (override or OS user) + ".db"
\* (`or` takes the OS user for None and for the empty string alike)
\* the name built from the OS user whatever the override
_get_dbname_of_os_user == os_username \o ".db"

_get_dbname ==
    (IF env_username # <<>> /\ env_username[1] # "" THEN env_username[1]
     ELSE os_username) \o ".db"

\* SQLiteStore.remote_location, tested for truth
remote_location == remote_path # ""

\* self._remote_fs.glob(f"{remote_location}/*.db")
RECURSIVE Listing(_, _)
Listing(r, k) ==
    IF k > Len(ListOrder) THEN <<>>
    ELSE (IF r[ListOrder[k]].kind # "absent" THEN <<ListOrder[k]>> ELSE <<>>)
         \o Listing(r, k + 1)

glob(r) == Listing(r, 1)

\* create_db_engine + Base.metadata.create_all on a path: a missing file is created
create_all(content) == IF content.kind = "absent" THEN Db(<<>>) ELSE content

\* database.add(RunModel(**run)); database.commit(): the primary key rejects a
\* stored id (IntegrityError)
\* a table without the primary key: no insert is rejected
NeverDuplicate(rows, run) == FALSE

Duplicate(rows, run) == run.id \in IdsOf(rows)

\* an insert that stores the record twice
InsertTwice(rows, run) == Append(Append(rows, run), run)

Insert(rows, run) == Append(rows, run)

NoCalls == [download |-> 0, merge |-> 0, upload |-> 0, fs |-> 0]

ZeroSummary == [op |-> "none", faults |-> {}, local |-> Absent, result |-> "none"]

\* -------------------------------------------------------------------- Init
\* a store constructed in an environment: the override variable is one of
\* `environs`, the local database file and the remote objects of the peers hold
\* one of `contents`; the own object does not exist before the first upload
Constructed(environs, contents) ==
    /\ env_username \in environs
    /\ os_username = "ann"
    /\ remote_path \in {"", "s3://bucket"}
    /\ remote \in [ObjectNames -> contents]
    /\ remote_path = "" => \A n \in ObjectNames : remote[n] = Absent
    /\ remote[_get_dbname] = Absent
    /\ files \in [ObjectNames -> contents]
    /\ \A n \in ObjectNames \ {LocalDbName} : files[n] = Absent
    /\ op = "none"
    /\ pc = "idle"
    /\ databases = <<>>
    /\ db_i = 1
    /\ databases_location = <<>>
    /\ loc_i = 1
    /\ all_runs_data = <<>>
    /\ detached = FALSE
    /\ result = "none"
    /\ ops = 0
    /\ calls = NoCalls
    /\ logged = 0
    /\ created = {}
    /\ faults = {}
    /\ start = [files |-> files, remote |-> remote, run |-> <<>>]
    /\ prev = ZeroSummary

\* no other process
NoPeers == [p \in {} |-> {}]

Init ==
    /\ Constructed({<<>>, <<"session_store">>}, {Absent, Corrupt} \cup InitialDbs)
    /\ parked = NoPeers

\* what an operation leaves behind when it ends
Summary(res, fl, fs) ==
    [op |-> op, faults |-> fl, local |-> fs[LocalDbName], result |-> res]

\* ----------------------------------------------------------------- sync()
\* sync() running its phases although no remote location is configured
SyncIgnoresRemoteLocation ==
    /\ pc = "idle"
    /\ ops < MaxOps
    /\ ~remote_location
    /\ ops' = ops + 1
    /\ result' = "none"
    /\ calls' = [NoCalls EXCEPT !.download = 1]
    /\ logged' = 0
    /\ created' = {}
    /\ faults' = {}
    /\ start' = [files |-> files, remote |-> remote, run |-> <<>>]
    /\ prev' = IF ops = 0 THEN ZeroSummary ELSE Summary(result, faults, files)
    /\ pc' = "glob"
    /\ op' = "sync"
    /\ UNCHANGED <<env_username, os_username, remote_path, remote, files,
                   databases, db_i, databases_location, loc_i, all_runs_data,
                   detached>>
    /\ UNCHANGED parked

\* sync() without a remote location: the `if` is false and the call returns
SyncNoRemote ==
    /\ pc = "idle"
    /\ ops < MaxOps
    /\ ~remote_location
    /\ ops' = ops + 1
    /\ result' = "returned"
    /\ calls' = NoCalls
    /\ logged' = 0
    /\ created' = {}
    /\ faults' = {}
    /\ start' = [files |-> files, remote |-> remote, run |-> <<>>]
    /\ prev' = IF ops = 0 THEN ZeroSummary ELSE Summary(result, faults, files)
    /\ op' = "sync"
    /\ UNCHANGED <<env_username, os_username, remote_path, remote, files, pc,
                   databases, db_i, databases_location, loc_i, all_runs_data,
                   detached>>
    /\ UNCHANGED parked

\* sync() with a remote location: enters _download
SyncBegin ==
    /\ pc = "idle"
    /\ ops < MaxOps
    /\ remote_location
    /\ ops' = ops + 1
    /\ result' = "none"
    /\ calls' = [NoCalls EXCEPT !.download = 1]
    /\ logged' = 0
    /\ created' = {}
    /\ faults' = {}
    /\ start' = [files |-> files, remote |-> remote, run |-> <<>>]
    /\ prev' = IF ops = 0 THEN ZeroSummary ELSE Summary(result, faults, files)
    /\ databases' = <<>>
    /\ db_i' = 1
    /\ databases_location' = <<>>
    /\ loc_i' = 1
    /\ all_runs_data' = <<>>
    /\ detached' = FALSE
    /\ pc' = "glob"
    /\ op' = "sync"
    /\ UNCHANGED <<env_username, os_username, remote_path, remote, files>>
    /\ UNCHANGED parked

\* -------------------------------------------------------------------- save
\* save() up to database.commit(): opens the local database (created when
\* missing), adds the session's record and commits.  Nothing catches a failure
\* here: a file that is not a database, or a session id the table already
\* holds, raises out of save() before the upload.  With a remote location the
\* call goes on to `phase` (_upload() in the source); without one it returns.
Save(phase) ==
    /\ pc = "idle"
    /\ ops < MaxOps
    /\ \E sid \in Ids, blob \in Blobs :
        LET run == RunModel(sid, blob)
            opened == create_all(files[LocalDbName])
            failure == IF opened.kind = "corrupt" THEN {"open"}
                       ELSE IF Duplicate(opened.rows, run) THEN {"insert"}
                       ELSE {}
        IN  /\ start' = [files |-> files, remote |-> remote, run |-> <<run>>]
            /\ faults' = failure
            /\ files' = [files EXCEPT ![LocalDbName] =
                             IF failure = {"open"} THEN @
                             ELSE IF failure = {"insert"} THEN opened
                             ELSE Db(Insert(opened.rows, run))]
            /\ result' = IF failure # {} THEN "raised"
                         ELSE IF remote_location THEN "none" ELSE "returned"
            /\ pc' = IF failure = {} /\ remote_location THEN phase ELSE "idle"
    /\ ops' = ops + 1
    /\ op' = "save"
    /\ calls' = NoCalls
    /\ logged' = 0
    /\ created' = {}
    /\ prev' = IF ops = 0 THEN ZeroSummary ELSE Summary(result, faults, files)
    /\ databases' = <<>>
    /\ db_i' = 1
    /\ databases_location' = <<>>
    /\ loc_i' = 1
    /\ all_runs_data' = <<>>
    /\ detached' = FALSE
    /\ UNCHANGED <<env_username, os_username, remote_path, remote>>
    /\ UNCHANGED parked

\* save() calling the download phase after the commit, as sync() does
SaveThenDownload == Save("glob")

\* save(): `if self.remote_location: self._upload()`
SaveCommit == Save("upload")

\* -------------------------------------------------------------- _download
\* the glob call of _download with no except around it: the failure leaves
\* _download and sync()
GlobUncaught ==
    /\ pc = "glob"
    /\ calls' = [calls EXCEPT !.fs = @ + 1]
    /\ \/ /\ databases' = glob(remote)
          /\ pc' = IF glob(remote) = <<>> THEN "merge_open" ELSE "get"
          /\ UNCHANGED <<faults, result>>
       \/ /\ databases' = <<>>
          /\ faults' = faults \cup {"list"}
          /\ result' = "raised"
          /\ pc' = "idle"
    /\ UNCHANGED <<op, env_username, os_username, remote_path, remote, files, db_i,
                   databases_location, loc_i, all_runs_data, detached, logged,
                   ops, created, start, prev>>
    /\ UNCHANGED parked

\* the glob call of _download; a failure is caught by the except around the
\* whole try block and _download returns the empty list
Glob ==
    /\ pc = "glob"
    /\ calls' = [calls EXCEPT !.fs = @ + 1]
    /\ \/ /\ databases' = glob(remote)
          /\ pc' = IF glob(remote) = <<>> THEN "merge_open" ELSE "get"
          /\ UNCHANGED <<logged, faults>>
       \/ /\ databases' = <<>>
          /\ logged' = logged + 1
          /\ faults' = faults \cup {"list"}
          /\ pc' = "merge_open"
    /\ UNCHANGED <<op, env_username, os_username, remote_path, remote, files, db_i,
                   databases_location, loc_i, all_runs_data, detached, result,
                   ops, created, start, prev>>
    /\ UNCHANGED parked

\* a fetch that moves the object: the remote original is deleted once copied
GetAndDelete ==
    /\ pc = "get"
    /\ LET database == databases[db_i] IN
       /\ calls' = [calls EXCEPT !.fs = @ + 1]
       /\ \/ /\ files' = [files EXCEPT ![database] = remote[database]]
             /\ remote' = [remote EXCEPT ![database] = Absent]
             /\ created' = created \cup {database}
             /\ databases_location' = Append(databases_location, database)
             /\ db_i' = db_i + 1
             /\ pc' = IF db_i = Len(databases) THEN "merge_open" ELSE "get"
             /\ UNCHANGED <<logged, faults>>
          \/ /\ \/ UNCHANGED <<files, created>>
                \/ /\ files' = [files EXCEPT ![database] = Corrupt]
                   /\ created' = created \cup {database}
             /\ logged' = logged + 1
             /\ faults' = faults \cup {"fetch"}
             /\ pc' = "merge_open"
             /\ UNCHANGED <<databases_location, db_i, remote>>
    /\ UNCHANGED <<op, env_username, os_username, remote_path, databases,
                   loc_i, all_runs_data, detached, result, ops, start, prev>>
    /\ UNCHANGED parked


\* one iteration of `for database in databases`: get the object to
\* <self._path>/<base name>.  A failing get leaves the destination as it was or
\* partly written, and raises into the except that encloses the loop: the loop
\* ends and _download returns what it has appended so far
Get ==
    /\ pc = "get"
    /\ LET database == databases[db_i] IN
       /\ calls' = [calls EXCEPT !.fs = @ + 1]
       /\ \/ /\ files' = [files EXCEPT ![database] = remote[database]]
             /\ created' = created \cup {database}
             /\ databases_location' = Append(databases_location, database)
             /\ db_i' = db_i + 1
             /\ pc' = IF db_i = Len(databases) THEN "merge_open" ELSE "get"
             /\ UNCHANGED <<logged, faults>>
          \/ /\ \/ UNCHANGED <<files, created>>
                \/ /\ files' = [files EXCEPT ![database] = Corrupt]
                   /\ created' = created \cup {database}
             /\ logged' = logged + 1
             /\ faults' = faults \cup {"fetch"}
             /\ pc' = "merge_open"
             /\ UNCHANGED <<databases_location, db_i>>
    /\ UNCHANGED <<op, env_username, os_username, remote_path, remote, databases,
                   loc_i, all_runs_data, detached, result, ops, start, prev>>
    /\ UNCHANGED parked

\* ----------------------------------------------------------------- _merge
\* _merge's first statements: connect to the local session_store.db and create
\* the schema.  A file that is no database raises out of _merge and sync
MergeOpen ==
    /\ pc = "merge_open"
    /\ calls' = [calls EXCEPT !.merge = @ + 1]
    /\ IF files[LocalDbName].kind = "corrupt"
       THEN /\ faults' = faults \cup {"open"}
            /\ result' = "raised"
            /\ pc' = "idle"
            /\ UNCHANGED files
       ELSE /\ files' = [files EXCEPT ![LocalDbName] = create_all(@)]
            /\ pc' = IF databases_location = <<>> THEN "upload" ELSE "merge_db"
            /\ UNCHANGED <<faults, result>>
    /\ UNCHANGED <<op, env_username, os_username, remote_path, remote, databases,
                   db_i, databases_location, loc_i, all_runs_data, detached,
                   ops, logged, created, start, prev>>
    /\ UNCHANGED parked

\* the head of the loop going straight to os.remove: the rows read from the
\* file are not inserted before the file is deleted
MergeDbThenRemove ==
    /\ pc = "merge_db"
    /\ LET db_loc == databases_location[loc_i] IN
       IF files[db_loc].kind = "corrupt"
       THEN /\ faults' = faults \cup {"read"}
            /\ result' = "raised"
            /\ pc' = "idle"
            /\ UNCHANGED <<files, all_runs_data>>
       ELSE /\ files' = [files EXCEPT ![db_loc] = create_all(@)]
            /\ all_runs_data' = files[db_loc].rows
            /\ pc' = "merge_remove"
            /\ UNCHANGED <<faults, result>>
    /\ UNCHANGED <<op, env_username, os_username, remote_path, remote, databases,
                   db_i, databases_location, loc_i, detached, ops, calls, logged,
                   created, start, prev>>
    /\ UNCHANGED parked

\* head of `for db_loc in databases_location`: open the downloaded file,
\* reflect its tables and read every row of `runs`.  Reflecting a file that is
\* no database raises; nothing in _merge or sync catches it
MergeDb ==
    /\ pc = "merge_db"
    /\ LET db_loc == databases_location[loc_i] IN
       IF files[db_loc].kind = "corrupt"
       THEN /\ faults' = faults \cup {"read"}
            /\ result' = "raised"
            /\ pc' = "idle"
            /\ UNCHANGED <<files, all_runs_data>>
       ELSE /\ files' = [files EXCEPT ![db_loc] = create_all(@)]
            /\ all_runs_data' = files[db_loc].rows
            /\ pc' = IF files[db_loc].rows = <<>> THEN "merge_remove" ELSE "merge_run"
            /\ UNCHANGED <<faults, result>>
    /\ UNCHANGED <<op, env_username, os_username, remote_path, remote, databases,
                   db_i, databases_location, loc_i, detached, ops, calls, logged,
                   created, start, prev>>
    /\ UNCHANGED parked

\* the loop body without its try/except: the commit of a stored id raises out
\* of _merge and the rest of the file is not attempted
MergeRunUncaught ==
    /\ pc = "merge_run"
    /\ LET run == Head(all_runs_data)
           local == files[LocalDbName].rows IN
       IF ~detached /\ Duplicate(local, run)
       THEN /\ faults' = faults \cup {"dup"}
            /\ result' = "raised"
            /\ pc' = "idle"
            /\ UNCHANGED <<files, logged, all_runs_data>>
       ELSE /\ \/ ~detached /\ files' = [files EXCEPT ![LocalDbName] = Db(Insert(local, run))]
               \/ detached /\ UNCHANGED files
            /\ all_runs_data' = Tail(all_runs_data)
            /\ pc' = IF Len(all_runs_data) = 1 THEN "merge_remove" ELSE "merge_run"
            /\ UNCHANGED <<logged, faults, result>>
    /\ UNCHANGED <<op, env_username, os_username, remote_path, remote, databases,
                   db_i, databases_location, loc_i, detached, ops, calls,
                   created, start, prev>>
    /\ UNCHANGED parked

\* one iteration of `for run in all_runs_data`: add and commit the run; any
\* exception (the primary key rejecting a stored id) is rolled back and logged.
\* Once _merge has removed the file its own session is connected to, the insert
\* reaches the unlinked file or a new file without a `runs` table, depending
\* on the connection pool: it may or may not raise, and the path holds either
\* no file or a file without rows
MergeRun ==
    /\ pc = "merge_run"
    /\ LET run == Head(all_runs_data)
           local == files[LocalDbName].rows IN
       IF detached
       THEN /\ \/ UNCHANGED files
               \/ files' = [files EXCEPT ![LocalDbName] = Db(<<>>)]
            /\ \/ UNCHANGED <<logged, faults>>
               \/ /\ logged' = logged + 1
                  /\ faults' = faults \cup {"dup"}
       ELSE IF Duplicate(local, run)
       THEN /\ logged' = logged + 1
            /\ faults' = faults \cup {"dup"}
            /\ UNCHANGED files
       ELSE /\ files' = [files EXCEPT ![LocalDbName] = Db(Insert(local, run))]
            /\ UNCHANGED <<logged, faults>>
    /\ all_runs_data' = Tail(all_runs_data)
    /\ pc' = IF Len(all_runs_data) = 1 THEN "merge_remove" ELSE "merge_run"
    /\ UNCHANGED <<op, env_username, os_username, remote_path, remote, databases,
                   db_i, databases_location, loc_i, detached, result, ops, calls,
                   created, start, prev>>
    /\ UNCHANGED parked

\* end of the loop body: temp_engine.dispose(); os.remove(db_loc).  When db_loc
\* is the local database itself, the engine of _merge may still hold the file
\* open: the remove then unlinks it, or (where an open file cannot be removed)
\* raises out of _merge
MergeRemove ==
    /\ pc = "merge_remove"
    /\ LET db_loc == databases_location[loc_i] IN
       \/ /\ files' = [files EXCEPT ![db_loc] = Absent]
          /\ detached' = (detached \/ db_loc = LocalDbName)
          /\ loc_i' = loc_i + 1
          /\ pc' = IF loc_i = Len(databases_location) THEN "upload" ELSE "merge_db"
          /\ UNCHANGED <<faults, result>>
       \/ /\ db_loc = LocalDbName
          /\ faults' = faults \cup {"remove"}
          /\ result' = "raised"
          /\ pc' = "idle"
          /\ UNCHANGED <<files, detached, loc_i>>
    /\ UNCHANGED <<op, env_username, os_username, remote_path, remote, databases,
                   db_i, databases_location, all_runs_data, ops, calls, logged,
                   created, start, prev>>
    /\ UNCHANGED parked

\* ---------------------------------------------------------------- _upload
\* _upload() without its try/except: a failing put raises
UploadRaises ==
    /\ pc = "upload"
    /\ calls' = [calls EXCEPT !.upload = @ + 1, !.fs = @ + 1]
    /\ \/ /\ files[LocalDbName].kind # "absent"
          /\ remote' = [remote EXCEPT ![_get_dbname] = files[LocalDbName]]
          /\ result' = "returned"
          /\ UNCHANGED <<logged, faults>>
       \/ /\ faults' = faults \cup {"put"}
          /\ result' = "raised"
          /\ UNCHANGED <<logged, remote>>
    /\ pc' = "idle"
    /\ UNCHANGED <<op, env_username, os_username, remote_path, files, databases,
                   db_i, databases_location, loc_i, all_runs_data, detached, ops,
                   created, start, prev>>
    /\ UNCHANGED parked

\* put the local database file to <remote_location>/<_get_dbname()>; every
\* exception (the transport failing, the local file missing) is logged
Upload ==
    /\ pc = "upload"
    /\ calls' = [calls EXCEPT !.upload = @ + 1, !.fs = @ + 1]
    /\ \/ /\ files[LocalDbName].kind # "absent"
          /\ remote' = [remote EXCEPT ![_get_dbname] = files[LocalDbName]]
          /\ UNCHANGED <<logged, faults>>
       \/ /\ logged' = logged + 1
          /\ faults' = faults \cup {"put"}
          /\ UNCHANGED remote
    /\ result' = "returned"
    /\ pc' = "idle"
    /\ UNCHANGED <<op, env_username, os_username, remote_path, files, databases,
                   db_i, databases_location, loc_i, all_runs_data, detached, ops,
                   created, start, prev>>
    /\ UNCHANGED parked

Next ==
    \/ SaveCommit
    \/ SyncNoRemote
    \/ SyncBegin
    \/ Glob
    \/ Get
    \/ MergeOpen
    \/ MergeDb
    \/ MergeRun
    \/ MergeRemove
    \/ Upload

Spec == Init /\ [][Next]_vars

\* ------------------------------------------------- the identity of the store
\* _get_dbname() reads the environment at every upload.  The specification
\* below starts from every state of the override variable (unset, set to the
\* empty string, set to a name), over a few contents, and lets the variable
\* change between two operations.
Environs == {<<>>, <<"">>, <<"session_store">>}

NamingInit ==
    /\ Constructed(Environs, {Absent, Corrupt, Db(<<RunModel(1, 1)>>)})
    /\ parked = NoPeers

Setenv ==
    /\ pc = "idle"
    /\ ops < MaxOps
    /\ env_username' \in Environs \ {env_username}
    /\ UNCHANGED <<os_username, remote_path, remote, files, op, pc, databases,
                   db_i, databases_location, loc_i, all_runs_data, detached,
                   result, ops, calls, logged, created, faults, start, prev>>
    /\ UNCHANGED parked

NamingNext ==
    \/ Next
    \/ Setenv

NamingSpec == NamingInit /\ [][NamingNext]_vars

\* ------------------------------------------------ peers on one remote location
\* Several processes, each with its own working directory, environment and
\* store, share the remote location.  One of them runs at a time; the state of
\* the others is parked, and a switch between two steps hands the processor
\* to another one.  Every step of save() and sync() above is then a step of
\* the running process, and the steps of the processes interleave in every
\* order.  Only `remote` is shared.

\* the state of the running process's store
Registers ==
    [env_username |-> env_username, os_username |-> os_username,
     remote_path |-> remote_path, files |-> files, op |-> op, pc |-> pc,
     databases |-> databases, db_i |-> db_i,
     databases_location |-> databases_location, loc_i |-> loc_i,
     all_runs_data |-> all_runs_data, detached |-> detached, result |-> result,
     ops |-> ops, calls |-> calls, logged |-> logged, created |-> created,
     faults |-> faults, start |-> start, prev |-> prev]

\* the store of OS user `user`, constructed on a local database `content`
\* with the remote location configured and no override of the identity
ConstructedFor(user, content) ==
    LET directory == [n \in ObjectNames |->
                        IF n = LocalDbName THEN content ELSE Absent] IN
    [env_username |-> <<>>, os_username |-> user,
     remote_path |-> "s3://bucket", files |-> directory, op |-> "none",
     pc |-> "idle", databases |-> <<>>, db_i |-> 1,
     databases_location |-> <<>>, loc_i |-> 1, all_runs_data |-> <<>>,
     detached |-> FALSE, result |-> "none", ops |-> 0, calls |-> NoCalls,
     logged |-> 0, created |-> {}, faults |-> {},
     start |-> [files |-> directory, remote |-> remote, run |-> <<>>],
     prev |-> ZeroSummary]

\* the OS users of the peers: ann runs first, under her own name or under the
\* override identity; zoe is parked
Peers == {"ann", "zoe"}

PeersInit ==
    /\ Constructed({<<>>, <<"session_store">>}, {Absent, Db(<<RunModel(1, 1)>>)})
    /\ \A n \in ObjectNames : remote[n] = Absent
    /\ \E content \in {Db(<<RunModel(2, 1)>>)} :
          parked = [q \in {"zoe"} |-> ConstructedFor(q, content)]

\* the processor goes from the running process to the parked process q
Switch(q) ==
    /\ q \in DOMAIN parked
    /\ parked' = [r \in (DOMAIN parked \ {q}) \cup {os_username} |->
                     IF r = os_username THEN Registers ELSE parked[r]]
    /\ env_username' = parked[q].env_username
    /\ os_username' = parked[q].os_username
    /\ remote_path' = parked[q].remote_path
    /\ files' = parked[q].files
    /\ op' = parked[q].op
    /\ pc' = parked[q].pc
    /\ databases' = parked[q].databases
    /\ db_i' = parked[q].db_i
    /\ databases_location' = parked[q].databases_location
    /\ loc_i' = parked[q].loc_i
    /\ all_runs_data' = parked[q].all_runs_data
    /\ detached' = parked[q].detached
    /\ result' = parked[q].result
    /\ ops' = parked[q].ops
    /\ calls' = parked[q].calls
    /\ logged' = parked[q].logged
    /\ created' = parked[q].created
    /\ faults' = parked[q].faults
    /\ start' = parked[q].start
    /\ prev' = parked[q].prev
    /\ UNCHANGED remote

SwitchPeer == \E q \in Peers : Switch(q)

PeersNext ==
    \/ Next
    \/ SwitchPeer

PeersSpec == PeersInit /\ [][PeersNext]_vars

\* ================================================================ claims
Local == files[LocalDbName]

\* the operation has ended (returned or raised)
Ended == pc = "idle" /\ result # "none"

\* a sync() that entered its three phases has ended
SyncEnded == Ended /\ calls.download = 1

\* the names _download returned
Downloaded == {databases_location[k] : k \in 1..Len(databases_location)}

\* the ids held by the remote objects when the operation began
RemoteIdsAtStart == UNION {IdsOf(start.remote[n].rows) : n \in ObjectNames}

\* the listing of the cycle holds no object named like the local database
NoNameClash == \A k \in 1..Len(databases) : databases[k] # LocalDbName

\* C1: after one sync() that returned and in which the listing, every fetch
\* and every peer-file read succeeded, the local ids are the union of the local ids and all remote
\* objects' ids at the start, with one row per id.
C1_SetUnion ==
    (/\ SyncEnded
     /\ result = "returned"
     /\ faults \cap {"list", "fetch", "read", "open"} = {}) =>
        /\ IdsOf(Local.rows) = IdsOf(start.files[LocalDbName].rows) \cup RemoteIdsAtStart
        /\ Len(Local.rows) = Cardinality(IdsOf(Local.rows))

\* C2: of two sync() calls in a row that returned, both free of list, fetch,
\* read and open failures, the second leaves the local store with the rows it had after the
\* first, one row per id.
C2_Idempotent ==
    (/\ SyncEnded
     /\ ops = 2
     /\ result = "returned"
     /\ prev.op = "sync"
     /\ prev.result = "returned"
     /\ (faults \cup prev.faults) \cap {"list", "fetch", "read", "open"} = {}) =>
        /\ RowsOf(Local.rows) = RowsOf(prev.local.rows)
        /\ Len(Local.rows) = Len(prev.local.rows)

\* C3: once the merge phase of a cycle is over (it returned, or a peer file
\* could not be read), no peer file is left in the working directory.  Stated
\* for the cycles in which every fetch succeeded and the local database opened.
C3_Cleanup ==
    (/\ calls.merge = 1
     /\ pc \in {"upload", "idle"}
     /\ faults \cap {"open", "fetch"} = {}
     /\ NoNameClash) =>
        \A n \in ObjectNames \ {LocalDbName} : files[n].kind = "absent"

\* C4: when the fetch of one listed object fails, every other listed object,
\* before or after it, is in the download's result.
C4_FetchIsolation ==
    (/\ calls.download = 1
     /\ pc \notin {"glob", "get"}
     /\ "fetch" \in faults
     /\ NoNameClash) =>
        \A k \in 1..Len(databases) : k # db_i => databases[k] \in Downloaded

\* C5: when a downloaded peer file cannot be read, the ids of every healthy
\* downloaded peer file are in the local store once the cycle is over.
C5_MergeIsolation ==
    (/\ SyncEnded
     /\ "read" \in faults
     /\ NoNameClash) =>
        \A n \in Downloaded :
            start.remote[n].kind = "db" => IdsOf(start.remote[n].rows) \subseteq IdsOf(Local.rows)

\* C6: sync() raises only when the local database cannot be opened.
C6_Containment ==
    (SyncEnded /\ result = "raised") =>
        ("open" \in faults /\ files[LocalDbName].kind = "corrupt")

\* what a failed listing leaves, whatever happens afterwards: an empty download
\* result, no file written by the download, the error logged, the other files
\* of the directory and the local rows as they were
ListingFailureEffects ==
    /\ databases_location = <<>>
    /\ created = {}
    /\ logged >= 1
    /\ pc = "merge_open" => (files = start.files /\ logged = 1 /\ result = "none")
    /\ \A n \in ObjectNames \ {LocalDbName} : files[n] = start.files[n]
    /\ Local.rows = start.files[LocalDbName].rows

\* C7 (as stated): when the listing fails, the download returns nothing, writes
\* no file and logs the error; sync() then does not raise and the local rows
\* are unchanged.
C7_ListingFailure ==
    "list" \in faults => (ListingFailureEffects /\ result # "raised")

\* C7 (amended): as above, but sync() raises exactly when the local database
\* file is no database and cannot be opened by the merge phase.
C7_ListingFailureUnlessLocalBroken ==
    "list" \in faults =>
        /\ ListingFailureEffects
        /\ Ended => (result = "raised" <=> start.files[LocalDbName].kind = "corrupt")
        /\ Ended => (result = "returned" <=> start.files[LocalDbName].kind # "corrupt")

\* C7 witness: a sync() whose listing failed has returned, the local store
\* holding rows.
C7_Witness ==
    /\ Ended
    /\ "list" \in faults
    /\ result = "returned"
    /\ Local.rows # <<>>

\* C8: no step of sync() deletes a local database file that holds rows or
\* replaces its content; such a file changes only by one row being appended.
C8_LocalNeverReplaced ==
    [][LET a == files[LocalDbName]
           b == files'[LocalDbName] IN
       (a.kind = "db" /\ a.rows # <<>>) =>
           \/ a = b
           \/ /\ b.kind = "db"
              /\ Len(b.rows) = Len(a.rows) + 1
              /\ SubSeq(b.rows, 1, Len(a.rows)) = a.rows]_vars

\* C9: without a remote location, sync() calls neither _download, _merge nor
\* _upload, makes no remote call, and leaves every file and remote object as
\* it was.
C9_NoRemoteNoOp ==
    (remote_path = "" /\ op # "save") =>
        /\ pc = "idle"
        /\ calls = NoCalls
        /\ logged = 0
        /\ files = start.files
        /\ remote = start.remote
        /\ ops > 0 => result = "returned"

\* C9 witness: a sync() without a remote location has returned, the local store
\* holding rows.
C9_Witness ==
    /\ remote_path = ""
    /\ op = "sync"
    /\ result = "returned"
    /\ Local.rows # <<>>

\* C10: a sync() with a remote location runs _download, _merge and _upload
\* once each, whatever the download returned.
C10_PhaseOrder ==
    (/\ Ended
     /\ op = "sync"
     /\ remote_path # ""
     /\ "open" \notin faults
     /\ NoNameClash) =>
        /\ calls.download = 1
        /\ calls.merge = 1
        /\ calls.upload = 1

\* a save() has ended / has returned
SaveEnded == Ended /\ op = "save"
SaveReturned == SaveEnded /\ result = "returned"

\* the record save() was called to write
SessionRun == start.run[1]

\* C11 (as stated): a save() with a remote location that returned has run the
\* download, the merge and the upload once each after inserting its record, so
\* the local store holds the ids the remote objects held and the record is in
\* the own remote object.
C11_SaveRunsFullCycle ==
    (SaveReturned /\ remote_location) =>
        /\ calls.download = 1
        /\ calls.merge = 1
        /\ calls.upload = 1
        /\ RemoteIdsAtStart \subseteq IdsOf(Local.rows)
        /\ SessionRun \in RowsOf(remote[_get_dbname].rows)

\* C11 (amended): a save() with a remote location that returned has run the
\* upload alone, once, after inserting its record: it lists and fetches
\* nothing, merges nothing, the local store holds its former rows and the
\* session's record, and when the put succeeded the own remote object is a
\* copy of that local store.
C11_SaveUploadsOnly ==
    (SaveReturned /\ remote_location) =>
        /\ calls = [NoCalls EXCEPT !.upload = 1, !.fs = 1]
        /\ created = {}
        /\ Local = Db(Append(start.files[LocalDbName].rows, SessionRun))
        /\ "put" \notin faults => remote[_get_dbname] = Local
        /\ \A n \in ObjectNames \ {_get_dbname} : remote[n] = start.remote[n]

\* C11 witness: a save() with a remote location returned after a successful
\* put while a peer object holds an id the local store does not hold.
C11_Witness ==
    /\ SaveReturned
    /\ remote_location
    /\ "put" \notin faults
    /\ RemoteIdsAtStart \ IdsOf(Local.rows) # {}
    /\ SessionRun \in RowsOf(remote[_get_dbname].rows)

\* C12: a save() whose commit succeeded invokes the upload once when a remote
\* location is configured and never without one; the upload is invoked only
\* after the record is committed; with or without a remote location the local
\* store is then its former rows and one more, the session's record.
C12_SaveUploadCount ==
    op = "save" =>
        /\ calls.upload = 1 => (remote_location /\ SessionRun \in RowsOf(Local.rows))
        /\ pc = "upload" => (calls.upload = 0 /\ SessionRun \in RowsOf(Local.rows))
        /\ SaveReturned =>
              /\ calls.upload = (IF remote_location THEN 1 ELSE 0)
              /\ Len(Local.rows) = Len(start.files[LocalDbName].rows) + 1
              /\ SubSeq(Local.rows, 1, Len(Local.rows) - 1) = start.files[LocalDbName].rows
              /\ Local.rows[Len(Local.rows)] = SessionRun

\* C12 witness: a save() without a remote location returned, on a local store
\* that held a record
C12_Witness ==
    /\ SaveReturned
    /\ ~remote_location
    /\ calls.upload = 0
    /\ start.files[LocalDbName].rows # <<>>
    /\ SessionRun \in RowsOf(Local.rows)

\* C13: the upload step changes no file of the working directory and ends the
\* operation by returning; when the put fails the error is logged, nothing is
\* raised and no remote object changes.  Whatever the put does, a save() leaves
\* the local store as its former rows and the session's record.
C13_UploadFailureContained ==
    [][pc = "upload" =>
          /\ files' = files
          /\ pc' = "idle"
          /\ result' = "returned"
          /\ "put" \in faults' => (logged' = logged + 1 /\ remote' = remote)
          /\ op = "save" =>
                files'[LocalDbName] = Db(Append(start.files[LocalDbName].rows, SessionRun))]_vars

\* C13 witness: a sync() that merged a record returned after its put failed
C13_Witness ==
    /\ Ended
    /\ op = "sync"
    /\ "put" \in faults
    /\ result = "returned"
    /\ Len(Local.rows) > Len(start.files[LocalDbName].rows)

\* the names of the remote objects that exist
ObjectsOf(r) == {n \in ObjectNames : r[n].kind # "absent"}

\* what a successful put under the name `name` leaves: the object of that
\* name is a copy of the local database, it is the one object of that name,
\* and every other object is as it was
UploadedAs(name) ==
    /\ \E n \in ObjectNames : n = name /\ remote'[n] = files[LocalDbName]
    /\ ObjectsOf(remote') = ObjectsOf(remote) \cup {name}
    /\ \A m \in ObjectNames \ {name} : remote'[m] = remote[m]

\* a step of _upload whose put succeeds
PutSucceeds == pc = "upload" /\ faults' = faults

\* the local store of the peer run by OS user p, running or parked
StoreOf(p) ==
    IF os_username = p THEN files[LocalDbName] ELSE parked[p].files[LocalDbName]

\* C14: with peers of distinct identities running save() and sync() on one
\* remote location, their list, fetch, merge and put steps interleaved in any
\* order, no step makes a peer lose a record it held (the half of the claim
\* that the convergence of the peers to the union of all records rests on).
\* Stated for the steps of operations in which no listing and no fetch failed.
C14_NoPeerLosesARecord ==
    [][faults' \cap {"list", "fetch"} = {} =>
          \A p \in Peers :
              RowsOf(StoreOf(p).rows) \subseteq RowsOf(StoreOf(p)'.rows)]_vars

\* C15 (as stated): a successful upload writes the object <identity>.db, where
\* identity is the value of the override variable when the variable is set and
\* the OS user name otherwise; it leaves one object of that name and no other
\* object changed.
C15_NamedByOverrideWhenSet ==
    [][PutSucceeds =>
          UploadedAs((IF env_username # <<>> THEN env_username[1]
                      ELSE os_username) \o ".db")]_vars

\* C15 (amended): as above, where identity is the value of the override
\* variable when the variable is set to a non-empty string, and the OS user
\* name when it is unset or empty.
C15_NamedByNonEmptyOverride ==
    [][PutSucceeds =>
          UploadedAs((IF env_username \in {<<>>, <<"">>} THEN os_username
                      ELSE env_username[1]) \o ".db")]_vars

\* C15 witness: with the override variable set to the empty string, an upload
\* has written the local rows under the OS user's name, next to the object
\* of another identity.
C15_Witness ==
    /\ env_username = <<"">>
    /\ Ended
    /\ calls.upload = 1
    /\ "put" \notin faults
    /\ Local.rows # <<>>
    /\ remote["ann.db"] = Local
    /\ remote["session_store.db"].kind = "db"

\* C16: no step of save() or sync() changes a remote object other than the
\* one named after the own identity: the objects of the peers are written,
\* overwritten and deleted by nobody but their owners.
C16_SingleWriter ==
    [][\A n \in ObjectNames \ {_get_dbname} : remote'[n] = remote[n]]_vars

\* C16 witness: a sync() has fetched and merged a peer's object holding rows
\* and has then written its own object.
C16_Witness ==
    /\ SyncEnded
    /\ result = "returned"
    /\ "put" \notin faults
    /\ remote[_get_dbname] # start.remote[_get_dbname]
    /\ \E n \in Downloaded \ {_get_dbname, LocalDbName} :
          /\ remote[n].rows # <<>>
          /\ IdsOf(remote[n].rows) \subseteq IdsOf(Local.rows)

\* C17: in every reachable state, whatever save() and sync() calls led to it
\* (a save() of a stored session id, merges of peer files that repeat an id),
\* the local store holds at most one record per id.
C17_IdUnique ==
    Len(Local.rows) = Cardinality(IdsOf(Local.rows))

\* C17 witness: after a save() that was called with a stored session id, a
\* sync() has merged a peer file repeating a stored id, the local store
\* holding two records.
C17_Witness ==
    /\ SyncEnded
    /\ "dup" \in faults
    /\ ~detached
    /\ prev.op = "save"
    /\ "insert" \in prev.faults
    /\ Len(Local.rows) = 2

\* C18: each record of a peer file is inserted and committed on its own.  A
\* record whose id the local store holds changes no file (the stored record
\* keeps its blob) and is logged; a record whose id is new is appended.  In
\* both cases nothing is raised and the merge goes on with the next record of
\* the file, or with the removal of the file and then the next file.
C18_SkipOnDuplicate ==
    [][LET local == files[LocalDbName].rows IN
       /\ pc = "merge_run" =>
             /\ all_runs_data' = Tail(all_runs_data)
             /\ pc' = (IF all_runs_data' # <<>> THEN "merge_run" ELSE "merge_remove")
             /\ result' = result
             /\ <<databases_location', loc_i'>> = <<databases_location, loc_i>>
             /\ (~detached /\ Head(all_runs_data).id \in IdsOf(local)) =>
                   (files' = files /\ logged' = logged + 1)
             /\ (~detached /\ Head(all_runs_data).id \notin IdsOf(local)) =>
                   /\ files' = [files EXCEPT ![LocalDbName] =
                                    Db(Append(local, Head(all_runs_data)))]
                   /\ logged' = logged
       /\ (pc = "merge_remove" /\ result' # "raised" /\ loc_i < Len(databases_location)) =>
             (pc' = "merge_db" /\ loc_i' = loc_i + 1)]_vars

\* C18 witness: a merge met a peer file whose first record repeats a stored
\* id under another blob and whose second record is new: the stored blob is
\* kept, the error logged, and the second record is in the local store.
C18_Witness ==
    /\ SyncEnded
    /\ result = "returned"
    /\ ~detached
    /\ logged = 1
    /\ faults = {"dup"}
    /\ \E n \in Downloaded \ {LocalDbName} :
          LET rows == start.remote[n].rows
              before == start.files[LocalDbName].rows IN
          /\ Len(rows) = 2
          /\ rows[1].id \in IdsOf(before)
          /\ rows[1] \notin RowsOf(Local.rows)
          /\ rows[2].id \notin IdsOf(before)
          /\ rows[2] \in RowsOf(Local.rows)
          /\ RowsOf(before) \subseteq RowsOf(Local.rows)

\* C19: after a sync() whose put succeeded, the own remote object is a copy of
\* the local store as the merge phase left it, and that is the rows the local
\* store held before the sync() plus the ids of every downloaded peer file.
C19_UploadIsMergedStore ==
    (SyncEnded /\ result = "returned" /\ "put" \notin faults) =>
        /\ remote[_get_dbname] = Local
        /\ RowsOf(start.files[LocalDbName].rows) \subseteq RowsOf(remote[_get_dbname].rows)
        /\ IdsOf(remote[_get_dbname].rows) =
              IdsOf(start.files[LocalDbName].rows) \cup
              UNION {IdsOf(start.remote[n].rows) : n \in Downloaded}

\* C20: at every point of a save() or sync(), whatever fails, the local store
\* holds every record it held when the operation began, blob included.
C20_AppendOnly ==
    RowsOf(start.files[LocalDbName].rows) \subseteq RowsOf(Local.rows)

\* C21: the object the process uploaded is listed, fetched and merged by its
\* later cycles, and in every state its ids are ids of the local store, so
\* that merging it adds nothing.  Stated for the operations in which no fetch
\* failed.
C21_OwnObjectStaleSubset ==
    "fetch" \notin faults =>
        IdsOf(remote[_get_dbname].rows) \subseteq IdsOf(Local.rows)

\* C22: a step deletes a file of the working directory only at the end of the
\* loop body of the merge, for the file being merged, once every row read from
\* it has been through the insert; unless the merge has removed its own local
\* database, every id of the deleted file is then in the local store.
C22_DeleteAfterMerge ==
    [][\A n \in ObjectNames :
          (files[n].kind # "absent" /\ files'[n].kind = "absent") =>
              /\ pc = "merge_remove"
              /\ n = databases_location[loc_i]
              /\ all_runs_data = <<>>
              /\ ~detached => IdsOf(files[n].rows) \subseteq IdsOf(Local.rows)]_vars

\* C22 witness: the merge phase is over; a peer file of two records, one new
\* and one repeating a stored id, has been deleted after both were attempted.
C22_Witness ==
    /\ pc = "upload"
    /\ calls.merge = 1
    /\ ~detached
    /\ "dup" \in faults
    /\ \E n \in Downloaded \ {LocalDbName} :
          /\ files[n].kind = "absent"
          /\ Len(start.remote[n].rows) = 2
          /\ IdsOf(start.remote[n].rows) \subseteq IdsOf(Local.rows)
          /\ IdsOf(start.remote[n].rows) \ IdsOf(start.files[LocalDbName].rows) # {}

====
